---- MODULE Spec2Model ----
(***************************************************************************)
(* Vector store, ingestion pipeline and retrieval pipeline of the sales    *)
(* copilot: src/src/storage/vector_store.py, src/src/ingestion/*.py and    *)
(* src/src/retrieval/retrieval_pipeline.py.                                *)
(*                                                                         *)
(* Representation.  An embedding is a tuple of Dim integers.  The FAISS    *)
(* IndexFlatL2 is the sequence of the vectors added to it; its position p  *)
(* (0-based, as FAISS numbers it) is element p+1 of the sequence.  The     *)
(* metadata dict is a function from integer keys to chunk records.  A text *)
(* of several lines is the sequence of its lines (the '\n'.join of the     *)
(* code, which is injective on lines).  The two persisted artifacts are    *)
(* the records index_file and metadata_file.                               *)
(***************************************************************************)
EXTENDS Integers, Sequences, FiniteSets, TLC

\* ---------------------------------------------------------------- bounds
MaxId == 3          \* no add_documents call is started that would exceed it
MaxBatch == 2       \* longest batch handed to add_documents directly
MaxK == 2           \* largest k of a search
MaxLines == 4       \* longest file handed to the parser on its own

\* config.EMBEDDING_DIMENSION, scaled down
Dim == 1

None == "<None>"

CallIds == {"a.txt", "b.txt"}
Coords == {0, 2}
QueryCoords == {0, 1}

VecsOfDim(d) == [1..d -> Coords]
Vecs == VecsOfDim(Dim)
QueryVecs == [1..Dim -> QueryCoords]

\* ------------------------------------------------------- transcript files
HeaderLine(ts, sp, speech) ==
    [kind |-> "header", indent |-> 0, timestamp |-> ts, speaker |-> sp, body |-> speech]
TextLine(ind, b) ==
    [kind |-> "text", indent |-> ind, timestamp |-> None, speaker |-> None, body |-> b]
BlankLine ==
    [kind |-> "blank", indent |-> 0, timestamp |-> None, speaker |-> None, body |-> ""]

\* the three kinds of line and the transcript files the pipeline is run on
H == HeaderLine("[00:01]", "A", "hi")
T == TextLine(1, "more")
B == BlankLine
Files ==
    {<<>>, <<B>>, <<T>>, <<T, B>>,
     <<H>>, <<B, H, B>>, <<H, T>>, <<H, H>>, <<H, T, H>>, <<T, H, B, T>>}

\* a second header, and a header whose speaker label is empty
\* ("[00:09] : hey" matches speaker_pattern with group 2 = "")
H2 == HeaderLine("[00:05]", "B", "yo")
E == HeaderLine("[00:09]", "", "hey")
\* the files the parser is applied to on its own
ParserLines == {H, H2, E, T, B}
ParserFiles == UNION {[1..n -> ParserLines] : n \in 0..MaxLines}

\* speaker_pattern.match(line): the line is a turn header
Matches(line) == line.kind = "header"
\* line.strip() of a continuation line: the indentation is dropped
Strip(line) == line.body
\* truth value of a Python str or None
Truthy(s) == s # None /\ s # ""

Segment(call_id, ts, sp, speech) ==
    [call_id |-> call_id, timestamp |-> ts, speaker |-> sp, text |-> speech]

\* variant of the loop: an empty line ends the pending turn
RECURSIVE ParseLoopBlankCloses(_, _, _, _, _, _, _)
ParseLoopBlankCloses(lines, p, call_id, cur_sp, cur_ts, cur_speech, out) ==
    LET closed == IF Truthy(cur_sp) /\ cur_speech # <<>>
                  THEN Append(out, Segment(call_id, cur_ts, cur_sp, cur_speech))
                  ELSE out
    IN IF p > Len(lines) THEN closed
       ELSE LET line == lines[p] IN
            IF Matches(line)
            THEN ParseLoopBlankCloses(lines, p + 1, call_id, line.speaker, line.timestamp,
                                      <<line.body>>, closed)
            ELSE IF line.kind = "blank"
            THEN ParseLoopBlankCloses(lines, p + 1, call_id, None, None, <<>>, closed)
            ELSE IF Truthy(cur_sp)
            THEN ParseLoopBlankCloses(lines, p + 1, call_id, cur_sp, cur_ts,
                                      Append(cur_speech, Strip(line)), out)
            ELSE ParseLoopBlankCloses(lines, p + 1, call_id, cur_sp, cur_ts, cur_speech, out)

\* The loop of parse_transcript over lines[p..], carrying the three locals
\* and the turns yielded so far.
RECURSIVE ParseLoop(_, _, _, _, _, _, _)
ParseLoop(lines, p, call_id, cur_sp, cur_ts, cur_speech, out) ==
    IF p > Len(lines)
    THEN IF Truthy(cur_sp) /\ cur_speech # <<>>
         THEN Append(out, Segment(call_id, cur_ts, cur_sp, cur_speech))
         ELSE out
    ELSE LET line == lines[p] IN
         IF Matches(line)
         THEN ParseLoop(lines, p + 1, call_id, line.speaker, line.timestamp,
                        <<line.body>>,
                        IF Truthy(cur_sp) /\ cur_speech # <<>>
                        THEN Append(out, Segment(call_id, cur_ts, cur_sp, cur_speech))
                        ELSE out)
         ELSE IF line.kind # "blank" /\ Truthy(cur_sp)
         THEN ParseLoop(lines, p + 1, call_id, cur_sp, cur_ts,
                        Append(cur_speech, Strip(line)), out)
         ELSE ParseLoop(lines, p + 1, call_id, cur_sp, cur_ts, cur_speech, out)

\* variant: the pending speaker starts as a default name instead of None
parse_transcript_default_speaker(file, call_id) ==
    ParseLoop(file, 1, call_id, "Unknown", None, <<>>, <<>>)

parse_transcript(file, call_id) == ParseLoop(file, 1, call_id, None, None, <<>>, <<>>)

\* variant: enumerate(document_segments, 1)
chunk_document_from_one(segments) ==
    [i \in 1..Len(segments) |->
        [call_id |-> segments[i].call_id, timestamp |-> segments[i].timestamp,
         speaker |-> segments[i].speaker, text |-> segments[i].text,
         segment_id |-> i]]

\* Chunker.chunk_document: a copy of each segment with segment_id = position
chunk_document(segments) ==
    [i \in 1..Len(segments) |->
        [call_id |-> segments[i].call_id, timestamp |-> segments[i].timestamp,
         speaker |-> segments[i].speaker, text |-> segments[i].text,
         segment_id |-> i - 1]]

\* the caller's list after chunk_document: "chunk = segment.copy()" leaves
\* every dict of it as it was
SegmentsAfterChunking(segments) == segments

\* Chunks a caller hands to add_documents directly.
SampleChunks ==
    {[call_id |-> c, timestamp |-> "[00:01]", speaker |-> "A", text |-> <<"hi">>,
      segment_id |-> s] : c \in CallIds, s \in 0..1}

\* Chunks without a timestamp, or without timestamp and speaker, as a caller
\* of add_documents may build them.
BareChunks ==
    {[call_id |-> "a.txt", speaker |-> "B", text |-> <<"yo", "more">>, segment_id |-> 0],
     [call_id |-> "a.txt", text |-> <<"hi">>, segment_id |-> 1]}
TranscriptChunks == SampleChunks \cup BareChunks

\* ------------------------------------------------------------ the state
VARIABLES
    alive,          \* a VectorStore object exists (its constructor returned)
    index,          \* self.index: the vectors of the IndexFlatL2, in order
    metadata,       \* self.metadata: vector id -> chunk
    next_id,        \* self.next_id
    index_file,     \* the artifact at index_path
    metadata_file,  \* the artifact at metadata_path
    ret,            \* the last call: operation, arguments, result
    passed,         \* history: vector id -> the (chunk, embedding) pair passed for it
    total,          \* history: records loaded at the last load plus records added since
    session,        \* where the interactive session of cli() is
    calls,          \* per thread, the add_documents call it is in and where
    overlapped,     \* history: two add_documents calls have been in flight at once
    writers         \* history: metadata key -> the calls that have written it

vars == <<alive, index, metadata, next_id, index_file, metadata_file, ret, passed, total,
          session, calls, overlapped, writers>>

\* the threads that call add_documents on one store, and a thread that is in
\* no call
Threads == {"t1", "t2"}
Idle == [pc |-> "idle"]

EmptyMap == [i \in {} |-> None]
NoFile == [exists |-> FALSE]


\* ------------------------------------------------------ IndexFlatL2 model
\* squared L2 distance, the metric IndexFlatL2 ranks by
RECURSIVE SqDistFrom(_, _, _)
SqDistFrom(u, v, p) ==
    IF p > Len(u) THEN 0
    ELSE (u[p] - v[p]) * (u[p] - v[p]) + SqDistFrom(u, v, p + 1)
SqDist(u, v) == SqDistFrom(u, v, 1)

\* variant: the ranking by descending distance
BeforeFarthest(idx, q, i, j) ==
    \/ SqDist(idx[i + 1], q) > SqDist(idx[j + 1], q)
    \/ SqDist(idx[i + 1], q) = SqDist(idx[j + 1], q) /\ i <= j

\* position i ranks before position j for query q (ties: the lower position)
Before(idx, q, i, j) ==
    \/ SqDist(idx[i + 1], q) < SqDist(idx[j + 1], q)
    \/ SqDist(idx[i + 1], q) = SqDist(idx[j + 1], q) /\ i <= j

RECURSIVE Ranked(_, _, _)
Ranked(idx, q, S) ==
    IF S = {} THEN <<>>
    ELSE LET m == CHOOSE i \in S : \A j \in S : Before(idx, q, i, j)
         IN <<m>> \o Ranked(idx, q, S \ {m})

\* index.search(q, k)[1][0]: k labels, nearest first, padded with -1
IndexSearch(idx, q, k) ==
    LET order == Ranked(idx, q, 0..(Len(idx) - 1))
    IN [p \in 1..k |-> IF p <= Len(order) THEN order[p] ELSE -1]

\* index.add(embeddings)
IndexAdd(idx, embeddings) == idx \o embeddings

\* ------------------------------------------------------------ VectorStore
\* variant: enumerate(chunks, 1)
MetadataPutFromOne(meta, n, chunks) ==
    [i \in (DOMAIN meta) \cup (n + 1)..(n + Len(chunks)) |->
        IF i \in (n + 1)..(n + Len(chunks)) THEN chunks[i - n] ELSE meta[i]]

\* variant: self.metadata[i] = chunk, the offset next_id forgotten
MetadataPutFromZero(meta, n, chunks) ==
    [i \in (DOMAIN meta) \cup 0..(Len(chunks) - 1) |->
        IF i \in 0..(Len(chunks) - 1) THEN chunks[i + 1] ELSE meta[i]]

\* the loop "self.metadata[self.next_id + i] = chunk" of add_documents
MetadataPut(meta, n, chunks) ==
    [i \in (DOMAIN meta) \cup n..(n + Len(chunks) - 1) |->
        IF i \in n..(n + Len(chunks) - 1) THEN chunks[i - n + 1] ELSE meta[i]]

\* variant: self.next_id += 1
NextIdPlusOne(n, chunks) == n + 1

\* "self.next_id += len(chunks)"
NextIdAfter(n, chunks) == n + Len(chunks)

\* the body of search
SearchResults(idx, meta, q, k) ==
    IF Len(idx) = 0 THEN <<>>
    ELSE LET labels == IndexSearch(idx, q, k)
             kept == SelectSeq(labels, LAMBDA i : i # -1 /\ i \in DOMAIN meta)
         IN [p \in 1..Len(kept) |-> meta[kept[p]]]

\* self.metadata.values(): the chunks in key insertion order, which is
\* ascending key order (keys are only ever inserted at next_id and above)
RECURSIVE ValuesOf(_, _)
ValuesOf(meta, S) ==
    IF S = {} THEN <<>>
    ELSE LET m == CHOOSE i \in S : \A j \in S : i <= j
         IN <<meta[m]>> \o ValuesOf(meta, S \ {m})
Values(meta) == ValuesOf(meta, DOMAIN meta)

\* sorted(xs, key=segment_id): stable insertion of xs[p..] into acc
RECURSIVE InsertSorted(_, _)
InsertSorted(acc, x) ==
    IF acc = <<>> THEN <<x>>
    ELSE IF acc[Len(acc)].segment_id <= x.segment_id THEN Append(acc, x)
    ELSE Append(InsertSorted(SubSeq(acc, 1, Len(acc) - 1), x), acc[Len(acc)])
RECURSIVE SortedFrom(_, _, _)
SortedFrom(xs, p, acc) ==
    IF p > Len(xs) THEN acc ELSE SortedFrom(xs, p + 1, InsertSorted(acc, xs[p]))
\* variant: the list is returned as collected
Unsorted(xs) == xs

SortedBySegment(xs) == SortedFrom(xs, 1, <<>>)

ChunksByCallId(meta, call_id) ==
    SortedBySegment(SelectSeq(Values(meta), LAMBDA c : c.call_id = call_id))

AllCallIds(meta) == {meta[i].call_id : i \in DOMAIN meta}

\* A Python str built by get_full_transcript is the sequence of the pieces it
\* is concatenated from; it is the empty string when every piece is empty.
\* chunk.get(key, default)
DictGet(chunk, key, default) == IF key \in DOMAIN chunk THEN chunk[key] ELSE default

\* sep.join(parts), each part a sequence of pieces
RECURSIVE JoinFrom(_, _, _)
JoinFrom(parts, p, sep) ==
    IF p > Len(parts) THEN <<>>
    ELSE IF p = Len(parts) THEN parts[p]
    ELSE parts[p] \o <<sep>> \o JoinFrom(parts, p + 1, sep)
Join(parts, sep) == JoinFrom(parts, 1, sep)

\* the pieces of a chunk text: its lines with the newlines between them
TextPieces(text) == Join([i \in 1..Len(text) |-> <<text[i]>>], "\n")

\* variant: chunk['speaker'] defaulting to the empty string
TranscriptLineNoDefault(chunk) ==
    <<DictGet(chunk, "timestamp", ""), " ", DictGet(chunk, "speaker", ""), ": ">>
        \o TextPieces(DictGet(chunk, "text", <<>>))

\* f"{chunk.get('timestamp', '')} {chunk.get('speaker', 'Unknown')}: {chunk.get('text', '')}"
TranscriptLine(chunk) ==
    <<DictGet(chunk, "timestamp", ""), " ", DictGet(chunk, "speaker", "Unknown"), ": ">>
        \o TextPieces(DictGet(chunk, "text", <<>>))

\* the body of get_full_transcript
FullTranscript(meta, call_id) ==
    LET call_chunks == ChunksByCallId(meta, call_id) IN
    IF call_chunks = <<>> THEN <<>>
    ELSE Join([i \in 1..Len(call_chunks) |-> TranscriptLine(call_chunks[i])], "\n")

\* what save() writes
IndexArtifact(idx) == [exists |-> TRUE, vecs |-> idx]
\* variant: the counter is not written, a reader sees 0
MetadataArtifactNoCounter(meta, n) ==
    [exists |-> TRUE, readable |-> TRUE, metadata |-> meta, next_id |-> 0]

\* variant: open(metadata_path, 'xb'), an artifact already there is kept
MetadataArtifactKeepExisting(meta, n) ==
    IF metadata_file.exists THEN metadata_file
    ELSE [exists |-> TRUE, readable |-> TRUE, metadata |-> meta, next_id |-> n]

MetadataArtifact(meta, n) ==
    [exists |-> TRUE, readable |-> TRUE, metadata |-> meta, next_id |-> n]

\* history of the (chunk, embedding) pairs handed to add_documents
PassedPut(h, n, chunks, embeddings) ==
    [i \in (DOMAIN h) \cup n..(n + Len(chunks) - 1) |->
        IF i \in n..(n + Len(chunks) - 1)
        THEN [chunk |-> chunks[i - n + 1],
              embedding |-> IF i - n + 1 <= Len(embeddings)
                            THEN embeddings[i - n + 1] ELSE None]
        ELSE h[i]]
Restrict(h, S) == [i \in (DOMAIN h) \cap S |-> h[i]]

Init ==
    /\ alive = TRUE
    /\ index = <<>>
    /\ metadata = EmptyMap
    /\ next_id = 0
    /\ index_file = NoFile
    /\ metadata_file = NoFile
    /\ ret = [op |-> "__init__", raised |-> FALSE]
    /\ passed = EmptyMap
    /\ total = 0
    /\ session = "none"
    /\ calls = [t \in Threads |-> Idle]
    /\ overlapped = FALSE
    /\ writers = EmptyMap

\* index.add(embeddings) rejects an array whose row length is not the
\* dimension of the index, before anything is changed
Rejected(embeddings) == \E i \in 1..Len(embeddings) : Len(embeddings[i]) # Dim

\* the effect of add_documents(chunks, embeddings) on the store
add_documents(chunks, embeddings) ==
    IF Rejected(embeddings)
    THEN UNCHANGED <<index, metadata, next_id, passed, total>>
    ELSE /\ index' = IndexAdd(index, embeddings)
         /\ metadata' = MetadataPut(metadata, next_id, chunks)
         /\ next_id' = NextIdAfter(next_id, chunks)
         /\ passed' = PassedPut(passed, next_id, chunks, embeddings)
         /\ total' = total + Len(chunks)

AddResult(chunks, embeddings) ==
    [op |-> "add_documents", raised |-> Rejected(embeddings), n |-> next_id,
     chunks |-> chunks, embeddings |-> embeddings]

\* a caller's add_documents with one embedding of dimension Dim per chunk
AddDocuments ==
    /\ alive
    /\ \E n \in 1..MaxBatch :
         /\ next_id + n <= MaxId
         /\ \E chunks \in [1..n -> SampleChunks], embeddings \in [1..n -> Vecs] :
              /\ add_documents(chunks, embeddings)
              /\ ret' = AddResult(chunks, embeddings)
    /\ UNCHANGED <<alive, index_file, metadata_file>>
    /\ UNCHANGED <<session, calls, overlapped, writers>>

\* a caller's add_documents with a number of embeddings other than the
\* number of chunks, or with embeddings of another dimension
AddDocumentsMismatch ==
    /\ alive
    /\ \E n \in 1..MaxBatch, m \in 1..MaxBatch, d \in {Dim, Dim + 1} :
         /\ n # m \/ d # Dim
         /\ next_id + n <= MaxId
         /\ Len(index) + m <= MaxId
         /\ \E chunks \in [1..n -> SampleChunks], embeddings \in [1..m -> VecsOfDim(d)] :
              /\ add_documents(chunks, embeddings)
              /\ ret' = AddResult(chunks, embeddings)
    /\ UNCHANGED <<alive, index_file, metadata_file>>
    /\ UNCHANGED <<session, calls, overlapped, writers>>

Search ==
    /\ alive
    /\ \E q \in QueryVecs, k \in 1..MaxK :
         ret' = [op |-> "search", query |-> q, k |-> k,
                 result |-> SearchResults(index, metadata, q, k)]
    /\ UNCHANGED <<alive, index, metadata, next_id, index_file, metadata_file, passed, total>>
    /\ UNCHANGED <<session, calls, overlapped, writers>>

Save ==
    /\ alive
    /\ index_file' = IndexArtifact(index)
    /\ metadata_file' = MetadataArtifact(metadata, next_id)
    /\ ret' = [op |-> "save"]
    /\ UNCHANGED <<alive, index, metadata, next_id, passed, total>>
    /\ UNCHANGED <<session, calls, overlapped, writers>>

\* variant: "or" in place of "and" in the test, so that a lone artifact is
\* opened together with the missing one
LoadedIfEitherExists(idx, meta, n) ==
    IF index_file.exists \/ metadata_file.exists
    THEN IF index_file.exists /\ metadata_file.exists /\ metadata_file.readable
         THEN [index |-> index_file.vecs, metadata |-> metadata_file.metadata,
               next_id |-> metadata_file.next_id, raised |-> FALSE]
         ELSE [index |-> idx, metadata |-> meta, next_id |-> n, raised |-> TRUE]
    ELSE [index |-> <<>>, metadata |-> EmptyMap, next_id |-> 0, raised |-> FALSE]

\* load() run on a store whose fields are (idx, meta, n): the fields after it
\* and whether pickle.load raised
Loaded(idx, meta, n) ==
    IF index_file.exists /\ metadata_file.exists
    THEN IF metadata_file.readable
         THEN [index |-> index_file.vecs, metadata |-> metadata_file.metadata,
               next_id |-> metadata_file.next_id, raised |-> FALSE]
         ELSE [index |-> index_file.vecs, metadata |-> meta, next_id |-> n,
               raised |-> TRUE]
    ELSE [index |-> <<>>, metadata |-> EmptyMap, next_id |-> 0, raised |-> FALSE]

\* load() called on the live store
Load ==
    /\ alive
    /\ LET r == Loaded(index, metadata, next_id) IN
         /\ index' = r.index
         /\ metadata' = r.metadata
         /\ next_id' = r.next_id
         /\ passed' = Restrict(passed, DOMAIN r.metadata)
         /\ total' = Cardinality(DOMAIN r.metadata)
         /\ ret' = [op |-> "load", raised |-> r.raised]
    /\ UNCHANGED <<alive, index_file, metadata_file>>
    /\ UNCHANGED <<session, calls, overlapped, writers>>

\* VectorStore(index_path, metadata_path): a fresh object on the same paths;
\* when load() raises, the constructor raises and no store exists
Construct ==
    /\ LET r == Loaded(<<>>, EmptyMap, 0) IN
         /\ alive' = ~r.raised
         /\ index' = IF r.raised THEN <<>> ELSE r.index
         /\ metadata' = r.metadata
         /\ next_id' = r.next_id
         /\ passed' = Restrict(passed, DOMAIN r.metadata)
         /\ total' = Cardinality(DOMAIN r.metadata)
         /\ ret' = [op |-> "__init__", raised |-> r.raised]
    /\ UNCHANGED <<index_file, metadata_file>>
    /\ UNCHANGED <<session, calls, overlapped, writers>>

GetAllCallIds ==
    /\ alive
    /\ ret' = [op |-> "get_all_call_ids", result |-> AllCallIds(metadata)]
    /\ UNCHANGED <<alive, index, metadata, next_id, index_file, metadata_file, passed, total>>
    /\ UNCHANGED <<session, calls, overlapped, writers>>

GetChunksByCallId ==
    /\ alive
    /\ \E c \in CallIds \cup {"unknown.txt"} :
         ret' = [op |-> "get_chunks_by_call_id", call_id |-> c,
                 result |-> ChunksByCallId(metadata, c)]
    /\ UNCHANGED <<alive, index, metadata, next_id, index_file, metadata_file, passed, total>>
    /\ UNCHANGED <<session, calls, overlapped, writers>>

\* ------------------------------------------------------------- pipelines
\* IngestionPipeline.run(file_path, call_id); the embedder returns one
\* vector of dimension Dim per text
\* variant: run() ends with vector_store.save()
RunThenSave ==
    /\ alive
    /\ \E file \in Files, call_id \in CallIds :
         LET chunks == chunk_document(parse_transcript(file, call_id)) IN
         IF chunks = <<>>
         THEN /\ ret' = [op |-> "run", file |-> file, call_id |-> call_id, n |-> next_id,
                         chunks |-> chunks, encode_calls |-> 0, add_calls |-> 0]
              /\ UNCHANGED <<index, metadata, next_id, passed, total>>
         ELSE /\ next_id + Len(chunks) <= MaxId
              /\ \E embeddings \in [1..Len(chunks) -> Vecs] :
                   add_documents(chunks, embeddings)
              /\ ret' = [op |-> "run", file |-> file, call_id |-> call_id, n |-> next_id,
                         chunks |-> chunks, encode_calls |-> 1, add_calls |-> 1]
    /\ index_file' = IndexArtifact(index')
    /\ metadata_file' = MetadataArtifact(metadata', next_id')
    /\ UNCHANGED alive
    /\ UNCHANGED <<session, calls, overlapped, writers>>

Run ==
    /\ alive
    /\ \E file \in Files, call_id \in CallIds :
         LET chunks == chunk_document(parse_transcript(file, call_id)) IN
         IF chunks = <<>>
         THEN /\ ret' = [op |-> "run", file |-> file, call_id |-> call_id, n |-> next_id,
                         chunks |-> chunks, encode_calls |-> 0, add_calls |-> 0]
              /\ UNCHANGED <<index, metadata, next_id, passed, total>>
         ELSE /\ next_id + Len(chunks) <= MaxId
              /\ \E embeddings \in [1..Len(chunks) -> Vecs] :
                   add_documents(chunks, embeddings)
              /\ ret' = [op |-> "run", file |-> file, call_id |-> call_id, n |-> next_id,
                         chunks |-> chunks, encode_calls |-> 1, add_calls |-> 1]
    /\ UNCHANGED <<alive, index_file, metadata_file>>
    /\ UNCHANGED <<session, calls, overlapped, writers>>

\* RetrievalPipeline.retrieve_relevant_docs(query, k): the embedder maps the
\* query to some vector of dimension Dim
Retrieve ==
    /\ alive
    /\ \E q \in QueryVecs, k \in {1, MaxId} :
         ret' = [op |-> "retrieve_relevant_docs", k |-> k,
                 result |-> SearchResults(index, metadata, q, k)]
    /\ UNCHANGED <<alive, index, metadata, next_id, index_file, metadata_file, passed, total>>
    /\ UNCHANGED <<session, calls, overlapped, writers>>

\* the store driven through its public operations
Next ==
    \/ AddDocuments
    \/ Search
    \/ Save
    \/ Load
    \/ Construct
    \/ GetAllCallIds
    \/ GetChunksByCallId

Spec == Init /\ [][Next]_vars

\* the metadata artifact is truncated by something outside the program
CorruptMetadata ==
    /\ metadata_file.exists
    /\ metadata_file.readable
    /\ metadata_file' = [exists |-> TRUE, readable |-> FALSE]
    /\ ret' = [op |-> "truncate"]
    /\ UNCHANGED <<alive, index, metadata, next_id, index_file, passed, total>>
    /\ UNCHANGED <<session, calls, overlapped, writers>>

\* the store driven by callers that also pass mismatched batches
MismatchNext ==
    \/ Next
    \/ AddDocumentsMismatch

MismatchSpec == Init /\ [][MismatchNext]_vars

\* the store with a metadata artifact that may get truncated
CorruptNext ==
    \/ Next
    \/ CorruptMetadata

CorruptSpec == Init /\ [][CorruptNext]_vars

\* --------------------------------------------------- transcript rebuilding
\* a caller's add_documents with chunks that may lack fields
AddTranscriptChunks ==
    /\ alive
    /\ \E n \in 1..MaxBatch :
         /\ next_id + n <= MaxId
         /\ \E chunks \in [1..n -> TranscriptChunks], embeddings \in [1..n -> Vecs] :
              /\ add_documents(chunks, embeddings)
              /\ ret' = AddResult(chunks, embeddings)
    /\ UNCHANGED <<alive, index_file, metadata_file>>
    /\ UNCHANGED <<session, calls, overlapped, writers>>

\* variant: the chunks of the call are popped from self.metadata as they
\* are read
GetFullTranscriptConsuming ==
    /\ alive
    /\ \E c \in CallIds \cup {"unknown.txt"} :
         /\ ret' = [op |-> "get_full_transcript", call_id |-> c,
                    result |-> FullTranscript(metadata, c)]
         /\ metadata' = Restrict(metadata, {i \in DOMAIN metadata : metadata[i].call_id # c})
    /\ UNCHANGED <<alive, index, next_id, index_file, metadata_file, passed, total>>
    /\ UNCHANGED <<session, calls, overlapped, writers>>

GetFullTranscript ==
    /\ alive
    /\ \E c \in CallIds \cup {"unknown.txt"} :
         ret' = [op |-> "get_full_transcript", call_id |-> c,
                 result |-> FullTranscript(metadata, c)]
    /\ UNCHANGED <<alive, index, metadata, next_id, index_file, metadata_file, passed, total>>
    /\ UNCHANGED <<session, calls, overlapped, writers>>

TranscriptNext ==
    \/ AddTranscriptChunks
    \/ GetFullTranscript

TranscriptSpec == Init /\ [][TranscriptNext]_vars

\* ----------------------------------------------- parser and chunker alone
\* a file and a call id are picked, nothing is parsed yet
ParserInit ==
    /\ alive = TRUE
    /\ index = <<>>
    /\ metadata = EmptyMap
    /\ next_id = 0
    /\ index_file = NoFile
    /\ metadata_file = NoFile
    /\ \E f \in ParserFiles, c \in CallIds : ret = [op |-> "open", file |-> f, call_id |-> c]
    /\ passed = EmptyMap
    /\ total = 0
    /\ session = "none"
    /\ calls = [t \in Threads |-> Idle]
    /\ overlapped = FALSE
    /\ writers = EmptyMap

\* list(parse_transcript(file_path, call_id))
Parse ==
    /\ ret.op = "open"
    /\ ret' = [op |-> "parse_transcript", file |-> ret.file, call_id |-> ret.call_id,
               result |-> parse_transcript(ret.file, ret.call_id)]
    /\ UNCHANGED <<alive, index, metadata, next_id, index_file, metadata_file, passed, total>>
    /\ UNCHANGED <<session, calls, overlapped, writers>>

\* Chunker().chunk_document(segments) on the parser's output
Chunk ==
    /\ ret.op = "parse_transcript"
    /\ ret' = [op |-> "chunk_document", segments |-> ret.result,
               segments_after |-> SegmentsAfterChunking(ret.result),
               result |-> chunk_document(ret.result)]
    /\ UNCHANGED <<alive, index, metadata, next_id, index_file, metadata_file, passed, total>>
    /\ UNCHANGED <<session, calls, overlapped, writers>>

ParserNext ==
    \/ Parse
    \/ Chunk

ParserSpec == ParserInit /\ [][ParserNext]_vars

\* the store driven through the two pipelines
PipelineNext ==
    \/ Run
    \/ Retrieve

PipelineSpec == Init /\ [][PipelineNext]_vars

\* IngestionPipeline.run when self.embedder.encode raises: there is no
\* try/except in run, the exception leaves it before add_documents
RunEncodeFails ==
    /\ alive
    /\ \E file \in Files, call_id \in CallIds :
         LET chunks == chunk_document(parse_transcript(file, call_id)) IN
         /\ chunks # <<>>
         /\ ret' = [op |-> "run", file |-> file, call_id |-> call_id, n |-> next_id,
                    chunks |-> chunks, encode_calls |-> 1, add_calls |-> 0,
                    encode_raised |-> TRUE, raised |-> TRUE]
    /\ UNCHANGED <<alive, index, metadata, next_id, index_file, metadata_file, passed, total>>
    /\ UNCHANGED <<session, calls, overlapped, writers>>

\* RetrievalPipeline.retrieve_relevant_docs when self.embedder.encode raises:
\* the exception leaves it before store.search
RetrieveEncodeFails ==
    /\ alive
    /\ \E k \in {1, MaxId} :
         ret' = [op |-> "retrieve_relevant_docs", k |-> k,
                 encode_raised |-> TRUE, raised |-> TRUE]
    /\ UNCHANGED <<alive, index, metadata, next_id, index_file, metadata_file, passed, total>>
    /\ UNCHANGED <<session, calls, overlapped, writers>>

\* the pipelines with an embedder that may fail
UpstreamNext ==
    \/ Run
    \/ Retrieve
    \/ RunEncodeFails
    \/ RetrieveEncodeFails

UpstreamSpec == Init /\ [][UpstreamNext]_vars

\* a caller's add_documents with chunks of one call and the zero vector for
\* every chunk; the index is kept within the bound as well as the counter
AddDocumentsOfOneCall ==
    /\ alive
    /\ \E n \in 1..MaxBatch :
         /\ next_id + n <= MaxId
         /\ Len(index) + n <= MaxId
         /\ \E chunks \in [1..n -> {c \in SampleChunks : c.call_id = "a.txt"}],
               embeddings \in [1..n -> {[d \in 1..Dim |-> 0]}] :
              /\ add_documents(chunks, embeddings)
              /\ ret' = AddResult(chunks, embeddings)
    /\ UNCHANGED <<alive, index_file, metadata_file>>
    /\ UNCHANGED <<session, calls, overlapped, writers>>

\* one of the two artifacts is removed by something outside the program
RemoveArtifact ==
    /\ \E which \in {"index", "metadata"} :
         /\ IF which = "index"
            THEN index_file.exists /\ index_file' = NoFile /\ UNCHANGED metadata_file
            ELSE metadata_file.exists /\ metadata_file' = NoFile /\ UNCHANGED index_file
         /\ ret' = [op |-> "remove", which |-> which]
    /\ UNCHANGED <<alive, index, metadata, next_id, passed, total>>
    /\ UNCHANGED <<session, calls, overlapped, writers>>

\* the store with artifacts that may go missing
MissingNext ==
    \/ AddDocumentsOfOneCall
    \/ Save
    \/ Load
    \/ Construct
    \/ RemoveArtifact

MissingSpec == Init /\ [][MissingNext]_vars

\* save() when the process is killed after faiss.write_index has returned and
\* before the metadata file is opened: the index artifact is new, the
\* metadata artifact is what it was, and the store object is gone
SaveInterrupted ==
    /\ alive
    /\ index_file' = IndexArtifact(index)
    /\ alive' = FALSE
    /\ index' = <<>>
    /\ metadata' = EmptyMap
    /\ next_id' = 0
    /\ ret' = [op |-> "save_interrupted"]
    /\ UNCHANGED <<metadata_file, passed, total>>
    /\ UNCHANGED <<session, calls, overlapped, writers>>

\* the store with a save() that may be cut short
CrashNext ==
    \/ AddDocumentsOfOneCall
    \/ Save
    \/ SaveInterrupted
    \/ Load
    \/ Construct

CrashSpec == Init /\ [][CrashNext]_vars

\* --------------------------------------------- add_documents step by step
\* Two threads call add_documents on one store. A call is the steps of its
\* body: the index append, one metadata write per chunk, the read and the
\* write of "self.next_id += len(chunks)". A call is named by the index
\* position its first vector got.
\* variant: the key is self.next_id for every chunk of the batch
PutKeyNoOffset(n, i) == n

\* the key of "self.metadata[self.next_id + i] = chunk"
PutKey(n, i) == n + i

\* self.index.add(embeddings_float32): thread t enters add_documents
Begin(t) ==
    /\ alive
    /\ calls[t] = Idle
    /\ \E n \in 1..MaxBatch :
         /\ Len(index) + n <= MaxId
         /\ \E chunks \in [1..n -> {c \in SampleChunks : c.call_id = "a.txt"}],
               embeddings \in [1..n -> {[d \in 1..Dim |-> 0]}] :
              /\ index' = IndexAdd(index, embeddings)
              /\ passed' = PassedPut(passed, Len(index), chunks, embeddings)
              /\ total' = total + n
              /\ calls' = [calls EXCEPT ![t] =
                              [pc |-> "put", base |-> Len(index), chunks |-> chunks, i |-> 0]]
    /\ overlapped' = (overlapped \/ \E u \in Threads \ {t} : calls[u] # Idle)
    /\ UNCHANGED <<alive, metadata, next_id, index_file, metadata_file, ret, session, writers>>

\* one turn of the for loop: self.metadata[self.next_id + i] = chunk
Put(t) ==
    /\ calls[t].pc = "put"
    /\ LET c == calls[t]
           key == PutKey(next_id, c.i)
       IN /\ metadata' = [k \in DOMAIN metadata \cup {key} |->
                             IF k = key THEN c.chunks[c.i + 1] ELSE metadata[k]]
          /\ writers' = [k \in DOMAIN writers \cup {key} |->
                            IF k = key
                            THEN (IF k \in DOMAIN writers THEN writers[k] ELSE {}) \cup {c.base}
                            ELSE writers[k]]
          /\ calls' = [calls EXCEPT ![t] =
                          IF c.i + 1 < Len(c.chunks)
                          THEN [c EXCEPT !.i = c.i + 1]
                          ELSE [pc |-> "read", base |-> c.base, chunks |-> c.chunks]]
    /\ UNCHANGED <<alive, index, next_id, index_file, metadata_file, ret, passed, total,
                   session, overlapped>>

\* self.next_id += len(chunks), the read of self.next_id
ReadNextId(t) ==
    /\ calls[t].pc = "read"
    /\ calls' = [calls EXCEPT ![t] =
                    [pc |-> "write", base |-> calls[t].base, chunks |-> calls[t].chunks,
                     seen |-> next_id]]
    /\ UNCHANGED <<alive, index, metadata, next_id, index_file, metadata_file, ret, passed,
                   total, session, overlapped, writers>>

\* self.next_id += len(chunks), the write of the sum; the call returns
WriteNextId(t) ==
    /\ calls[t].pc = "write"
    /\ next_id' = NextIdAfter(calls[t].seen, calls[t].chunks)
    /\ calls' = [calls EXCEPT ![t] = Idle]
    /\ UNCHANGED <<alive, index, metadata, index_file, metadata_file, ret, passed, total,
                   session, overlapped, writers>>

ConcurrentNext ==
    \/ \E t \in Threads : Begin(t)
    \/ \E t \in Threads : Put(t)
    \/ \E t \in Threads : ReadNextId(t)
    \/ \E t \in Threads : WriteNextId(t)

ConcurrentSpec == Init /\ [][ConcurrentNext]_vars

\* the store written by add_documents and read by every other operation
FrameNext ==
    \/ AddDocumentsOfOneCall
    \/ Search
    \/ Save
    \/ GetAllCallIds
    \/ GetChunksByCallId
    \/ GetFullTranscript

FrameSpec == Init /\ [][FrameNext]_vars

\* files ingested, some more than once, and the calls read back
ReingestNext ==
    \/ Run
    \/ GetChunksByCallId
    \/ GetFullTranscript

ReingestSpec == Init /\ [][ReingestNext]_vars

\* a caller that ingests files, saves when it chooses to, and may restart
DurabilityNext ==
    \/ Run
    \/ Save
    \/ Construct

DurabilitySpec == Init /\ [][DurabilityNext]_vars

\* ------------------------------------------------- the interactive session
\* What the operator types at the prompt, as the pieces of the line: words
\* and the white space between them.
CliInputs ==
    {<<"exit">>, <<"QUIT">>, <<" ", "exit">>, <<" ">>, <<"hello">>,
     <<"list">>, <<"ask">>, <<"ask", " ", "q">>,
     <<"summarise">>, <<"summarise", " ", "a.txt">>, <<"summarise", " ", "c.txt">>,
     <<"ingest">>, <<"ingest", " ", "nowhere">>, <<"ingest", " ", "empty">>,
     <<"ingest", " ", "a.txt">>, <<"ingest", " ", "calls">>}

\* str.lower() on the words used
Lower(w) == IF w = "QUIT" THEN "quit" ELSE w

\* user_input.lower() in ['exit', 'quit']
IsExit(input) == Len(input) = 1 /\ Lower(input[1]) \in {"exit", "quit"}

\* user_input.strip().split(maxsplit=1)
Parts(input) == SelectSeq(input, LAMBDA w : w # " ")
Command(input) == Lower(Parts(input)[1])
Args(input) == IF Len(Parts(input)) > 1 THEN Parts(input)[2] ELSE ""

\* The paths there are: two transcripts, a directory holding both, and a
\* directory without .txt files. PathFiles is files_to_ingest.
PathExists(path) == path \in {"a.txt", "b.txt", "calls", "empty"}
PathFiles(path) ==
    IF path = "calls" THEN <<"a.txt", "b.txt">>
    ELSE IF path \in {"a.txt", "b.txt"} THEN <<path>>
    ELSE <<>>
FileContent(file) == IF file = "a.txt" THEN <<H, T>> ELSE <<H, H2>>
FileChunks(file) == chunk_document(parse_transcript(FileContent(file), file))

\* the k of retrieve_relevant_docs when ask calls it
DefaultK == 5

\* the fields of the store, and the fields after add_documents on them
StoreFields ==
    [index |-> index, metadata |-> metadata, next_id |-> next_id,
     passed |-> passed, total |-> total]
Added(st, chunks, embeddings) ==
    [index |-> IndexAdd(st.index, embeddings),
     metadata |-> MetadataPut(st.metadata, st.next_id, chunks),
     next_id |-> NextIdAfter(st.next_id, chunks),
     passed |-> PassedPut(st.passed, st.next_id, chunks, embeddings),
     total |-> st.total + Len(chunks)]

\* the store after self.ingestor.run on files[1..j]; embs[p] is what the
\* embedder returns for the p-th chunk of this ingest
RECURSIVE IngestFiles(_, _, _, _)
IngestFiles(st, files, j, embs) ==
    IF j = 0 THEN st
    ELSE LET prev == IngestFiles(st, files, j - 1, embs)
             chunks == FileChunks(files[j])
             done == prev.next_id - st.next_id
         IN IF chunks = <<>> THEN prev
            ELSE Added(prev, chunks, [i \in 1..Len(chunks) |-> embs[done + i]])

RECURSIVE ChunkCount(_, _)
ChunkCount(files, j) ==
    IF j = 0 THEN 0 ELSE ChunkCount(files, j - 1) + Len(FileChunks(files[j]))

CliResult(input, raised, reported, result) ==
    [op |-> "cli", command |-> IF Parts(input) = <<>> THEN "" ELSE Command(input),
     args |-> IF Parts(input) = <<>> THEN "" ELSE Args(input),
     raised |-> raised, reported |-> reported, result |-> result]

\* copilot = SalesCopilot(): VectorStore is called with embedding_dim=, a
\* keyword its __init__ does not take; the TypeError leaves cli()
CliStart ==
    /\ session = "start"
    /\ session' = "crashed"
    /\ ret' = [op |-> "cli", command |-> "", args |-> "", raised |-> TRUE,
               reported |-> FALSE, result |-> "TypeError"]
    /\ UNCHANGED <<alive, index, metadata, next_id, index_file, metadata_file, passed, total,
                   calls, overlapped, writers>>

\* exit or quit at the prompt
CliExit ==
    /\ session = "prompt"
    /\ \E input \in CliInputs :
         /\ IsExit(input)
         /\ ret' = CliResult(input, FALSE, FALSE, "Exiting session.")
    /\ session' = "exited"
    /\ UNCHANGED <<alive, index, metadata, next_id, index_file, metadata_file, passed, total,
                   calls, overlapped, writers>>

\* a line of white space only: parts is empty and parts[0], before the try,
\* raises IndexError
CliBlank ==
    /\ session = "prompt"
    /\ \E input \in CliInputs :
         /\ ~IsExit(input)
         /\ Parts(input) = <<>>
         /\ ret' = CliResult(input, TRUE, FALSE, "IndexError")
    /\ session' = "crashed"
    /\ UNCHANGED <<alive, index, metadata, next_id, index_file, metadata_file, passed, total,
                   calls, overlapped, writers>>

\* ask: retrieve_relevant_docs, then the prompt, the LLM and the sources; an
\* exception of a collaborator is caught by the except of the loop
CliAsk ==
    /\ session = "prompt"
    /\ \E input \in CliInputs :
         /\ ~IsExit(input)
         /\ Parts(input) # <<>>
         /\ Command(input) = "ask"
         /\ IF Args(input) = ""
            THEN ret' = CliResult(input, FALSE, TRUE, "Error: 'ask' requires a question.")
            ELSE \/ ret' = CliResult(input, TRUE, TRUE, "An error occurred")
                 \/ \E q \in QueryVecs :
                      ret' = CliResult(input, FALSE, FALSE,
                                       SearchResults(index, metadata, q, DefaultK))
    /\ UNCHANGED <<alive, index, metadata, next_id, index_file, metadata_file, passed, total,
                   session, calls, overlapped, writers>>

\* summarise: get_full_transcript, then the prompt and the LLM
CliSummarise ==
    /\ session = "prompt"
    /\ \E input \in CliInputs :
         /\ ~IsExit(input)
         /\ Parts(input) # <<>>
         /\ Command(input) = "summarise"
         /\ IF Args(input) = ""
            THEN ret' = CliResult(input, FALSE, TRUE, "Error: 'summarise' requires a call_id.")
            ELSE LET transcript == FullTranscript(metadata, Args(input)) IN
                 IF \A p \in 1..Len(transcript) : transcript[p] = ""
                 THEN ret' = CliResult(input, FALSE, TRUE, "Error: Call ID not found.")
                 ELSE \/ ret' = CliResult(input, TRUE, TRUE, "An error occurred")
                      \/ ret' = CliResult(input, FALSE, FALSE, transcript)
    /\ UNCHANGED <<alive, index, metadata, next_id, index_file, metadata_file, passed, total,
                   session, calls, overlapped, writers>>

\* list: get_all_call_ids
CliList ==
    /\ session = "prompt"
    /\ \E input \in CliInputs :
         /\ ~IsExit(input)
         /\ Parts(input) # <<>>
         /\ Command(input) = "list"
         /\ ret' = CliResult(input, FALSE, FALSE, AllCallIds(metadata))
    /\ UNCHANGED <<alive, index, metadata, next_id, index_file, metadata_file, passed, total,
                   session, calls, overlapped, writers>>

\* ingest: SalesCopilot.ingest runs every file and saves once after the
\* loop; when run raises on the file failed_at, the files before it have been
\* added, save is not reached and the except of the loop reports
CliIngest ==
    /\ session = "prompt"
    /\ \E input \in CliInputs :
         /\ ~IsExit(input)
         /\ Parts(input) # <<>>
         /\ Command(input) = "ingest"
         /\ LET path == Args(input)
                files == PathFiles(path)
            IN IF path = ""
               THEN /\ ret' = CliResult(input, FALSE, TRUE, "Error: 'ingest' requires a path.")
                    /\ UNCHANGED <<index, metadata, next_id, passed, total,
                                   index_file, metadata_file>>
               ELSE IF ~PathExists(path)
               THEN /\ ret' = CliResult(input, FALSE, TRUE, "Error: Path does not exist")
                    /\ UNCHANGED <<index, metadata, next_id, passed, total,
                                   index_file, metadata_file>>
               ELSE IF files = <<>>
               THEN /\ ret' = CliResult(input, FALSE, TRUE, "Error: No .txt files found")
                    /\ UNCHANGED <<index, metadata, next_id, passed, total,
                                   index_file, metadata_file>>
               ELSE /\ next_id + ChunkCount(files, Len(files)) <= MaxId
                    /\ \E embs \in [1..ChunkCount(files, Len(files)) -> Vecs],
                          failed_at \in 0..Len(files) :
                         LET st == IngestFiles(StoreFields, files,
                                               IF failed_at = 0 THEN Len(files)
                                               ELSE failed_at - 1, embs)
                         IN /\ index' = st.index
                            /\ metadata' = st.metadata
                            /\ next_id' = st.next_id
                            /\ passed' = st.passed
                            /\ total' = st.total
                            /\ IF failed_at = 0
                               THEN /\ index_file' = IndexArtifact(st.index)
                                    /\ metadata_file' = MetadataArtifact(st.metadata, st.next_id)
                                    /\ ret' = CliResult(input, FALSE, FALSE, "Ingestion complete.")
                               ELSE /\ UNCHANGED <<index_file, metadata_file>>
                                    /\ ret' = CliResult(input, TRUE, TRUE, "An error occurred")
    /\ UNCHANGED <<alive, session, calls, overlapped, writers>>

\* any other first word
CliUnknown ==
    /\ session = "prompt"
    /\ \E input \in CliInputs :
         /\ ~IsExit(input)
         /\ Parts(input) # <<>>
         /\ Command(input) \notin {"ask", "summarise", "list", "ingest"}
         /\ ret' = CliResult(input, FALSE, FALSE, "Unknown command")
    /\ UNCHANGED <<alive, index, metadata, next_id, index_file, metadata_file, passed, total,
                   session, calls, overlapped, writers>>

\* The session is followed from the call of cli(), and from the prompt of a
\* session whose SalesCopilot holds an empty store.
CliInit ==
    /\ session \in {"start", "prompt"}
    /\ alive = (session = "prompt")
    /\ index = <<>>
    /\ metadata = EmptyMap
    /\ next_id = 0
    /\ index_file = NoFile
    /\ metadata_file = NoFile
    /\ ret = [op |-> "cli", command |-> "", args |-> "", raised |-> FALSE,
              reported |-> FALSE, result |-> ""]
    /\ passed = EmptyMap
    /\ total = 0
    /\ calls = [t \in Threads |-> Idle]
    /\ overlapped = FALSE
    /\ writers = EmptyMap

CliNext ==
    \/ CliStart
    \/ CliExit
    \/ CliBlank
    \/ CliAsk
    \/ CliSummarise
    \/ CliList
    \/ CliIngest
    \/ CliUnknown

CliSpec == CliInit /\ [][CliNext]_vars

\* ------------------------------------------------------------ properties
Min(a, b) == IF a <= b THEN a ELSE b
\* number of positions of the sequence xs that hold x
Count(xs, x) == Cardinality({p \in 1..Len(xs) : xs[p] = x})
\* number of keys of meta that hold a chunk x of call c
Stored(meta, x) == Cardinality({i \in DOMAIN meta : meta[i] = x})

\* C1: in every reachable state the index holds next_id vectors, the
\* metadata map holds next_id entries, and for every metadata key i the
\* vector at index position i is the embedding that was passed together
\* with the chunk stored under i.
C1_IndexMetadataLockstep ==
    alive =>
        /\ Len(index) = next_id
        /\ Cardinality(DOMAIN metadata) = next_id
        /\ \A i \in DOMAIN metadata :
             /\ i \in DOMAIN passed
             /\ i + 1 \in 1..Len(index)
             /\ metadata[i] = passed[i].chunk
             /\ index[i + 1] = passed[i].embedding

\* C1 witness: a store reloaded from a save of two records has had one more
\* record added
C1_Witness ==
    /\ alive
    /\ ret.op = "add_documents"
    /\ metadata_file.exists
    /\ metadata_file.next_id = 2
    /\ next_id = 3

\* C2: next_id equals the number of records added (counting the records a
\* load brought in), the issued vector ids are exactly 0..M-1, and the i-th
\* chunk of a batch added when next_id was n is stored under n+i.
C2_MonotonicIds ==
    alive =>
        /\ next_id = total
        /\ DOMAIN metadata = 0..(total - 1)
        /\ (ret.op = "add_documents" /\ ~ret.raised) =>
             /\ next_id = ret.n + Len(ret.chunks)
             /\ \A i \in 0..(Len(ret.chunks) - 1) : metadata[ret.n + i] = ret.chunks[i + 1]

\* C2 witness: a batch of two records added to a store that held one
C2_Witness ==
    /\ alive
    /\ ret.op = "add_documents"
    /\ ret.n = 1
    /\ Len(ret.chunks) = 2
    /\ total = 3

\* C3: save() followed by constructing a fresh store on the same paths
\* yields the same call ids, the same vector_id -> chunk map, the same
\* next_id and the same search result list for every query and k.
C3_SaveLoadRoundTrip ==
    [][(ret.op = "save" /\ ret'.op = "__init__") =>
          /\ alive'
          /\ ~ret'.raised
          /\ AllCallIds(metadata') = AllCallIds(metadata)
          /\ metadata' = metadata
          /\ next_id' = next_id
          /\ \A q \in QueryVecs, k \in 1..(MaxId + 1) :
               SearchResults(index', metadata', q, k) = SearchResults(index, metadata, q, k)]_vars

\* C3 witness: a store constructed from a save that holds three records of
\* two calls
C3_Witness ==
    /\ alive
    /\ ret.op = "__init__"
    /\ next_id = 3
    /\ metadata_file.exists
    /\ metadata_file.metadata = metadata
    /\ AllCallIds(metadata) = CallIds

\* C4: search(q, k) on a store of n vectors returns min(k, n) records, each
\* a stored chunk, in non-decreasing distance to q, and they are the
\* min(k, n) closest: some choice of distinct vector ids carries the result,
\* ascends in distance, and no vector left out is closer than one returned.
C4_SearchNearest ==
    (alive /\ ret.op = "search") =>
        LET r == ret.result
            n == Len(index)
        IN /\ Len(r) = Min(ret.k, n)
           /\ \E ids \in [1..Len(r) -> 0..(n - 1)] :
                /\ \A p, p2 \in 1..Len(r) : p # p2 => ids[p] # ids[p2]
                /\ \A p \in 1..Len(r) : ids[p] \in DOMAIN metadata /\ r[p] = metadata[ids[p]]
                /\ \A p \in 1..(Len(r) - 1) :
                     SqDist(index[ids[p] + 1], ret.query) <= SqDist(index[ids[p + 1] + 1], ret.query)
                /\ \A j \in 0..(n - 1) :
                     (\A p \in 1..Len(r) : ids[p] # j) =>
                        \A p \in 1..Len(r) :
                           SqDist(index[ids[p] + 1], ret.query) <= SqDist(index[j + 1], ret.query)

\* C4 witness: a search with k = 2 on three vectors whose first one is
\* farther from the query than the second
C4_Witness ==
    /\ alive
    /\ ret.op = "search"
    /\ ret.k = 2
    /\ Len(index) = 3
    /\ Len(ret.result) = 2
    /\ SqDist(index[1], ret.query) > SqDist(index[2], ret.query)

\* C4 witness for the padded case: k exceeds the number of stored vectors
C4_WitnessPadded ==
    /\ alive
    /\ ret.op = "search"
    /\ ret.k = 2
    /\ Len(index) = 1
    /\ Len(ret.result) = 1

\* C5: get_chunks_by_call_id(c) returns exactly the stored chunks of call c,
\* each as often as it is stored, in non-decreasing segment_id order.
C5_ChunksByCallId ==
    (alive /\ ret.op = "get_chunks_by_call_id") =>
        LET r == ret.result IN
        /\ \A p \in 1..Len(r) : r[p].call_id = ret.call_id
        /\ \A p \in 1..(Len(r) - 1) : r[p].segment_id <= r[p + 1].segment_id
        /\ \A i \in DOMAIN metadata :
             metadata[i].call_id = ret.call_id =>
                Count(r, metadata[i]) = Stored(metadata, metadata[i])
        /\ \A p \in 1..Len(r) : Stored(metadata, r[p]) > 0

\* C5 witness: two calls interleaved, the asked call stored with segment 1
\* before segment 0
C5_Witness ==
    /\ alive
    /\ ret.op = "get_chunks_by_call_id"
    /\ next_id = 3
    /\ Len(ret.result) = 2
    /\ metadata[0].call_id = ret.call_id
    /\ metadata[0].segment_id = 1
    /\ metadata[1].call_id # ret.call_id
    /\ metadata[2].call_id = ret.call_id
    /\ metadata[2].segment_id = 0

\* C6: running the ingestion pipeline on a file with n >= 1 turns against a
\* store whose next_id is m leaves the index with m+n vectors and stores
\* the i-th turn of the file, with segment_id i and its text unchanged,
\* under vector_id m+i; a retrieve_relevant_docs with k at least the store
\* size returns every stored chunk, each as often as it is stored.
C6_IngestThenRetrieve ==
    /\ (alive /\ ret.op = "run") =>
          LET turns == parse_transcript(ret.file, ret.call_id) IN
          Len(turns) >= 1 =>
             /\ Len(index) = ret.n + Len(turns)
             /\ next_id = ret.n + Len(turns)
             /\ \A i \in 0..(Len(turns) - 1) :
                  /\ (ret.n + i) \in DOMAIN metadata
                  /\ metadata[ret.n + i].segment_id = i
                  /\ metadata[ret.n + i].text = turns[i + 1].text
                  /\ metadata[ret.n + i].speaker = turns[i + 1].speaker
                  /\ metadata[ret.n + i].timestamp = turns[i + 1].timestamp
                  /\ metadata[ret.n + i].call_id = ret.call_id
    /\ (alive /\ ret.op = "retrieve_relevant_docs" /\ ret.k >= Len(index)) =>
          /\ Len(ret.result) = Len(index)
          /\ \A i \in DOMAIN metadata :
               Count(ret.result, metadata[i]) = Stored(metadata, metadata[i])

\* C6 witness: a file of two turns, the first with a continuation line,
\* ingested into a store that held one record
C6_Witness ==
    /\ alive
    /\ ret.op = "run"
    /\ ret.n = 1
    /\ Len(ret.chunks) = 2
    /\ Len(metadata[1].text) = 2
    /\ next_id = 3

\* C6 witness for the retrieval: every chunk of a store of three is returned
C6_WitnessRetrieve ==
    /\ alive
    /\ ret.op = "retrieve_relevant_docs"
    /\ ret.k >= Len(index)
    /\ Len(index) = 3
    /\ Len(ret.result) = 3

HasHeader(file) == \E p \in 1..Len(file) : Matches(file[p])

\* C10: a run on a file without any turn-header line produces zero chunks,
\* calls neither the embedder nor add_documents, and leaves the index, the
\* metadata and next_id unchanged.
C10_NoHeaderNoEffect ==
    [][(ret'.op = "run" /\ ~HasHeader(ret'.file)) =>
          /\ ret'.chunks = <<>>
          /\ ret'.encode_calls = 0
          /\ ret'.add_calls = 0
          /\ index' = index
          /\ metadata' = metadata
          /\ next_id' = next_id]_vars

\* C10 witness: a file of a continuation line and a blank line was run on
\* a store that holds records
C10_Witness ==
    /\ alive
    /\ ret.op = "run"
    /\ Len(ret.file) = 2
    /\ ~HasHeader(ret.file)
    /\ \E p \in 1..Len(ret.file) : ret.file[p].kind = "text"
    /\ next_id >= 1

\* C7: add_documents called with a number of embeddings other than the
\* number of chunks, or with an embedding whose dimension is not Dim, fails
\* and leaves the index, the metadata map and next_id as they were.
C7_MismatchRejected ==
    [][(/\ ret'.op = "add_documents"
        /\ \/ Len(ret'.chunks) # Len(ret'.embeddings)
           \/ \E i \in 1..Len(ret'.embeddings) : Len(ret'.embeddings[i]) # Dim) =>
          /\ ret'.raised
          /\ index' = index
          /\ metadata' = metadata
          /\ next_id' = next_id]_vars

\* C8: when the metadata artifact exists but is unreadable, load() and the
\* constructor do not raise and end with an empty, usable store.
C8_CorruptFallsBackToEmpty ==
    [][(/\ ret'.op \in {"load", "__init__"}
        /\ metadata_file.exists
        /\ ~metadata_file.readable) =>
          /\ ~ret'.raised
          /\ alive'
          /\ index' = <<>>
          /\ metadata' = EmptyMap
          /\ next_id' = 0]_vars

\* a step of one of the store's public operations on the live store
PublicStep == ret'.op \notin {"__init__", "truncate"}
Kept(i) == i \in DOMAIN metadata' /\ metadata'[i] = metadata[i]
Saved(i) ==
    /\ index_file.exists
    /\ metadata_file.exists
    /\ i \in DOMAIN metadata_file.metadata

\* C9 as stated: once a vector id has been issued, after every public
\* operation (load included) it is still a key and maps to the same chunk.
C9_AppendOnlyAcrossLoad ==
    [][PublicStep => \A i \in DOMAIN metadata : Kept(i)]_vars

\* C9 amended: add_documents, search, save and the get_* accessors keep
\* every issued id with its chunk; load() keeps, with the same chunk,
\* exactly the ids that the last save had written and drops the others.
C9_AppendOnlyUntilLoad ==
    [][PublicStep =>
          \A i \in DOMAIN metadata :
             IF ret'.op = "load" /\ ~Saved(i) THEN i \notin DOMAIN metadata' ELSE Kept(i)]_vars

\* C9 witness: records were added to a store that already held saved and
\* unsaved records
C9_Witness ==
    /\ alive
    /\ ret.op = "add_documents"
    /\ ret.n = 2
    /\ next_id = 3
    /\ metadata_file.exists
    /\ metadata_file.next_id = 1

\* C9 witness for load: a load on a store of saved records only
C9_WitnessLoad ==
    /\ alive
    /\ ret.op = "load"
    /\ next_id = 2
    /\ metadata_file.exists
    /\ metadata_file.next_id = 2

\* the positions of the header lines of a file, and the j-th of them
HeaderPositions(file) == {p \in 1..Len(file) : Matches(file[p])}
NthHeader(file, j) ==
    CHOOSE p \in HeaderPositions(file) :
        Cardinality({q \in HeaderPositions(file) : q < p}) = j - 1
\* the continuation lines that follow the header at p, up to the next header
Continuations(file, p) ==
    LET later == {q \in HeaderPositions(file) : q > p}
        stop == IF later = {} THEN Len(file) + 1
                ELSE CHOOSE q \in later : \A q2 \in later : q <= q2
        between == SubSeq(file, p + 1, stop - 1)
        kept == SelectSeq(between, LAMBDA l : l.kind = "text")
    IN [i \in 1..Len(kept) |-> kept[i].body]

\* C11: the parser emits exactly one turn per header line, in file order;
\* turn j carries the timestamp and speaker of the j-th header line and its
\* text is that header's speech followed by the later non-blank, non-header
\* lines up to the next header, left-trimmed.
C11_OneTurnPerHeader ==
    ret.op = "parse_transcript" =>
        LET r == ret.result
            n == Cardinality(HeaderPositions(ret.file))
        IN /\ Len(r) = n
           /\ \A j \in 1..n :
                LET p == NthHeader(ret.file, j) IN
                /\ r[j].call_id = ret.call_id
                /\ r[j].timestamp = ret.file[p].timestamp
                /\ r[j].speaker = ret.file[p].speaker
                /\ r[j].text = <<ret.file[p].body>> \o Continuations(ret.file, p)

\* C12: chunk_document maps n turns to n chunks in the same order, chunk i
\* with segment_id i (zero-based) and every other field of turn i; the
\* input turns are not modified; an empty input yields an empty output.
C12_ChunkerNumbersTurns ==
    ret.op = "chunk_document" =>
        LET r == ret.result
            in == ret.segments
        IN /\ Len(r) = Len(in)
           /\ ret.segments_after = in
           /\ \A i \in 1..Len(in) :
                /\ r[i].segment_id = i - 1
                /\ DOMAIN r[i] = (DOMAIN in[i]) \cup {"segment_id"}
                /\ \A f \in DOMAIN in[i] : r[i][f] = in[i][f]
           /\ (in = <<>> => r = <<>>)

\* C12 witness: two turns, the first with a continuation line, chunked
C12_Witness ==
    /\ ret.op = "chunk_document"
    /\ Len(ret.segments) = 2
    /\ Len(ret.segments[1].text) = 2
    /\ ret.result[2].segment_id = 1
    /\ ret.result[2].speaker = "B"

\* a string, as its pieces, is the empty string
IsEmptyString(pieces) == \A p \in 1..Len(pieces) : pieces[p] = ""

\* the transcript entry of one chunk, with the defaults for missing fields
ExpectedEntry(chunk) ==
    LET ts == IF "timestamp" \in DOMAIN chunk THEN chunk.timestamp ELSE ""
        sp == IF "speaker" \in DOMAIN chunk THEN chunk.speaker ELSE "Unknown"
    IN <<ts, " ", sp, ": ">> \o TextPieces(chunk.text)

\* the entries of chunks[1..n], each but the first preceded by a newline
RECURSIVE ExpectedEntries(_, _)
ExpectedEntries(chunks, n) ==
    IF n = 0 THEN <<>>
    ELSE IF n = 1 THEN ExpectedEntry(chunks[1])
    ELSE ExpectedEntries(chunks, n - 1) \o <<"\n">> \o ExpectedEntry(chunks[n])

\* C13: get_full_transcript(c) returns the empty string if and only if no
\* stored chunk has call_id c; otherwise one entry "<timestamp> <speaker>:
\* <text>" per chunk of get_chunks_by_call_id(c), in that order, joined by
\* newlines, with "" and "Unknown" for a missing timestamp and speaker.
C13_FullTranscript ==
    (alive /\ ret.op = "get_full_transcript") =>
        LET chunks == ChunksByCallId(metadata, ret.call_id) IN
        /\ IsEmptyString(ret.result) <=>
              ~\E i \in DOMAIN metadata : metadata[i].call_id = ret.call_id
        /\ ret.result = ExpectedEntries(chunks, Len(chunks))

\* C13 witness: a transcript of three chunks, one without timestamp and
\* speaker, one with a text of two lines, stored out of segment order
C13_Witness ==
    /\ alive
    /\ ret.op = "get_full_transcript"
    /\ ret.call_id = "a.txt"
    /\ next_id = 3
    /\ "speaker" \notin DOMAIN metadata[0]
    /\ "timestamp" \notin DOMAIN metadata[1]
    /\ Len(metadata[1].text) = 2
    /\ metadata[2].call_id = "a.txt"
    /\ Len(ret.result) > 12

\* C14: after save() the persisted metadata map and next_id are the
\* in-memory ones, whatever was persisted before; save() leaves the in-memory
\* store as it was, and a save() right after a save() leaves the persisted
\* state as the first one left it.
C14_SaveOverwrites ==
    [][(ret'.op = "save") =>
          /\ metadata_file'.exists
          /\ metadata_file'.metadata = metadata
          /\ metadata_file'.next_id = next_id
          /\ index_file'.exists
          /\ index_file'.vecs = index
          /\ UNCHANGED <<alive, index, metadata, next_id>>
          /\ (ret.op = "save" => UNCHANGED <<index_file, metadata_file>>)]_vars

\* C14 witness: a save() of a store of two or more records has returned
C14_Witness ==
    /\ alive
    /\ ret.op = "save"
    /\ next_id >= 2
    /\ metadata_file.metadata = metadata
    /\ metadata_file.next_id = next_id

\* C15: IngestionPipeline.run leaves the persisted index and metadata
\* artifacts as they were; the artifacts change only in save(), so a store
\* constructed afterwards holds what the last save() wrote and nothing run
\* added since.
C15_RunNeverSaves ==
    [][/\ (ret'.op = "run" => UNCHANGED <<index_file, metadata_file>>)
       /\ (~UNCHANGED <<index_file, metadata_file>> => ret'.op = "save")
       /\ (ret'.op = "__init__" =>
              /\ metadata' = IF metadata_file.exists THEN metadata_file.metadata
                             ELSE EmptyMap
              /\ next_id' = IF metadata_file.exists THEN metadata_file.next_id ELSE 0)]_vars

\* C15 witness: run has added records to a store saved earlier, and the
\* artifacts still hold the earlier, smaller store
C15_Witness ==
    /\ alive
    /\ ret.op = "run"
    /\ ret.add_calls = 1
    /\ metadata_file.exists
    /\ index_file.exists
    /\ metadata_file.next_id >= 1
    /\ metadata_file.next_id < next_id
    /\ Len(index_file.vecs) < Len(index)

\* C16: when the embedder fails inside IngestionPipeline.run or
\* RetrievalPipeline.retrieve_relevant_docs, the pipeline call does not raise
\* to its caller and the store is left unchanged.
C16_EmbedderFailureCaught ==
    [][(/\ ret'.op \in {"run", "retrieve_relevant_docs"}
        /\ "encode_raised" \in DOMAIN ret'
        /\ ret'.encode_raised) =>
          /\ ~ret'.raised
          /\ UNCHANGED <<index, metadata, next_id>>]_vars

\* C18: when neither artifact exists, or only one of the two, load() does
\* not fail and leaves an empty index, an empty metadata map and next_id = 0.
C18_MissingArtifactsEmptyStore ==
    [][(/\ ret'.op \in {"load", "__init__"}
        /\ ~(index_file.exists /\ metadata_file.exists)) =>
          /\ ~ret'.raised
          /\ alive'
          /\ index' = <<>>
          /\ metadata' = EmptyMap
          /\ next_id' = 0]_vars

\* C18 witness: load() has returned an empty store where the index artifact
\* of a saved, non-empty store is left and the metadata artifact is missing
C18_Witness ==
    /\ alive
    /\ ret.op = "load"
    /\ ~ret.raised
    /\ index_file.exists
    /\ Len(index_file.vecs) >= 1
    /\ ~metadata_file.exists
    /\ index = <<>>
    /\ metadata = EmptyMap
    /\ next_id = 0

\* C20: a store loaded from artifacts left by a save() cut short between the
\* two writes still has as many index vectors as next_id and as many
\* metadata entries.
C20_LoadAfterInterruptedSave ==
    (alive /\ ret.op \in {"load", "__init__"} /\ ~ret.raised) =>
        /\ Len(index) = next_id
        /\ Cardinality(DOMAIN metadata) = next_id

\* a metadata entry written by one call has been written by another call too
Overwritten == \E k \in DOMAIN writers : Cardinality(writers[k]) > 1

\* some metadata[i] is not the chunk whose embedding sits at index position i
Misplaced ==
    \E i \in DOMAIN metadata : i \notin DOMAIN passed \/ metadata[i] # passed[i].chunk

\* C19: as long as no two add_documents calls have been in flight at once, no
\* metadata entry has been overwritten by another call and every metadata[i]
\* is the chunk whose embedding sits at index position i, and between calls
\* the index, the counter and the map have one size.
C19_SerializedCallsConsistent ==
    ~overlapped =>
        /\ ~Overwritten
        /\ ~Misplaced
        /\ (\A t \in Threads : calls[t] = Idle) =>
              /\ Len(index) = next_id
              /\ DOMAIN metadata = 0..(next_id - 1)

\* C19 witness: two calls have interleaved and returned, a metadata entry of
\* one was overwritten by the other, and a metadata entry is not the chunk
\* of the vector at its position
C19_Witness ==
    /\ overlapped
    /\ \A t \in Threads : calls[t] = Idle
    /\ Overwritten
    /\ Misplaced
    /\ next_id < Len(index)

\* C17: in the interactive session an ingest, ask, summarise or list command
\* that fails is reported and the session is back at the prompt; the session
\* ends only when the operator enters exit or quit.
C17_SessionEndsOnlyOnExit ==
    [][/\ (/\ ret'.op = "cli"
           /\ ret'.command \in {"ingest", "ask", "summarise", "list"}
           /\ ret'.raised) => (ret'.reported /\ session' = "prompt")
       /\ (session \in {"start", "prompt"} /\ session' \notin {"start", "prompt"}) =>
             (session' = "exited" /\ IsExit(<<ret'.command>>))]_vars

\* the chunks of a sequence have pairwise distinct segment_ids
DistinctSegments(chunks) ==
    \A p, q \in 1..Len(chunks) : p # q => chunks[p].segment_id # chunks[q].segment_id

\* C21: after any sequence of ingestion runs, the chunks returned by
\* get_chunks_by_call_id(c) have pairwise distinct segment_ids, and
\* get_full_transcript(c) is the entries of such chunks, each turn once.
C21_DistinctSegmentsPerCall ==
    /\ (alive /\ ret.op = "get_chunks_by_call_id") => DistinctSegments(ret.result)
    /\ (alive /\ ret.op = "get_full_transcript") =>
          LET chunks == ChunksByCallId(metadata, ret.call_id) IN
          /\ DistinctSegments(chunks)
          /\ ret.result = ExpectedEntries(chunks, Len(chunks))

C23_OnlyAddDocumentsMutates ==
    [][/\ (ret'.op \in {"search", "save", "get_all_call_ids", "get_chunks_by_call_id",
                        "get_full_transcript"}) =>
             UNCHANGED <<index, metadata, next_id>>
       /\ (~UNCHANGED <<index, metadata, next_id>>) => ret'.op = "add_documents"]_vars

\* C23 witness: get_full_transcript has returned the transcript of a stored
\* call and the store of three records is what was added
C23_Witness ==
    /\ alive
    /\ ret.op = "get_full_transcript"
    /\ ret.call_id = "a.txt"
    /\ ret.result # <<>>
    /\ next_id = 3
    /\ Len(index) = 3
    /\ \A i \in 0..2 : i \in DOMAIN metadata /\ metadata[i] = passed[i].chunk

\* the file without its blank lines and without the lines before its first
\* header
WithoutIgnoredLines(file) ==
    LET first == IF HeaderPositions(file) = {} THEN Len(file) + 1
                 ELSE CHOOSE p \in HeaderPositions(file) :
                          \A q \in HeaderPositions(file) : p <= q
    IN SelectSeq(SubSeq(file, first, Len(file)), LAMBDA l : l.kind # "blank")

\* C24: parsing a file yields the turn sequence that parsing it without its
\* blank lines and without the lines before its first header yields; a blank
\* line neither closes the pending turn nor adds to its text.
C24_IgnoredLinesHaveNoEffect ==
    (ret.op = "parse_transcript") =>
        ret.result = parse_transcript(WithoutIgnoredLines(ret.file), ret.call_id)

\* C24 witness: a text line before the first header and a blank line between
\* the header and its continuation line; one turn of two text lines is parsed
C24_Witness ==
    /\ ret.op = "parse_transcript"
    /\ ret.file = <<T, H, B, T>>
    /\ Len(ret.result) = 1
    /\ ret.result[1].text = <<"hi", "more">>

====
